---------------------------- MODULE Spec2Model ----------------------------
(***************************************************************************)
(* The pyroscope receiver's ingest path (receiver/pyroscopereceiver/       *)
(* receiver.go): httpHandlerIngest races a deadline context against the    *)
(* worker goroutine started by handle(); the worker runs readParams, the   *)
(* method check, readProfiles (format check, multipart extraction, pooled  *)
(* buffer, decompression, sampleRate, parser, record assembly), the        *)
(* delegation to the next consumer and the response.                       *)
(*                                                                         *)
(* Strings that the code inspects character by character are sequences of  *)
(* one-character strings; uint64 values are four 16-bit limbs, least       *)
(* significant first, so that wrap-around is that of the 64-bit word.      *)
(***************************************************************************)
EXTENDS Integers, Sequences, FiniteSets, TLC

(***************************************************************************)
(* Bounds of the model.                                                    *)
(***************************************************************************)
\* requests the server may be handed (the pool is what they share)
NumReq == 2
\* most ProfileIR values one Parse call returns
MaxProfiles == 2
\* largest decompressed body, in bytes
MaxBody == 1

Requests == 1 .. NumReq

(***************************************************************************)
(* Strings                                                                 *)
(***************************************************************************)
DigitChars == <<"0", "1", "2", "3", "4", "5", "6", "7", "8", "9">>

IsDigit(c) == \E i \in 1 .. Len(DigitChars) : DigitChars[i] = c

DigitVal(c) == (CHOOSE i \in 1 .. Len(DigitChars) : DigitChars[i] = c) - 1

\* strings.Index(s, ch): the 0-based place of the first ch, or -1
IndexOf(s, ch) ==
    IF \E i \in 1 .. Len(s) : s[i] = ch
    THEN (CHOOSE i \in 1 .. Len(s) : s[i] = ch /\ \A j \in 1 .. (i - 1) : s[j] # ch) - 1
    ELSE -1

\* s[lo:hi] of Go faults unless 0 <= lo <= hi <= len(s)
SliceFaults(s, lo, hi) == ~(0 <= lo /\ lo <= hi /\ hi <= Len(s))

Slice(s, lo, hi) == SubSeq(s, lo + 1, hi)

\* strings.FieldsFunc(s, f): the maximal runs of characters outside seps
RECURSIVE FieldsFrom(_, _, _, _, _)
FieldsFrom(s, seps, i, cur, acc) ==
    IF i > Len(s)
    THEN IF cur = <<>> THEN acc ELSE Append(acc, cur)
    ELSE IF s[i] \in seps
         THEN FieldsFrom(s, seps, i + 1, <<>>, IF cur = <<>> THEN acc ELSE Append(acc, cur))
         ELSE FieldsFrom(s, seps, i + 1, Append(cur, s[i]), acc)

FieldsFunc(s, seps) == FieldsFrom(s, seps, 1, <<>>, <<>>)

(***************************************************************************)
(* uint64: four limbs of 16 bits, least significant first                  *)
(***************************************************************************)
LimbBase == 2 ^ 16

U64Zero == <<0, 0, 0, 0>>

\* x * k for a small k: the wrapped product and the carry out of bit 63
MulSmall(x, k) ==
    LET p1 == x[1] * k
        p2 == x[2] * k + (p1 \div LimbBase)
        p3 == x[3] * k + (p2 \div LimbBase)
        p4 == x[4] * k + (p3 \div LimbBase)
    IN  [val |-> <<p1 % LimbBase, p2 % LimbBase, p3 % LimbBase, p4 % LimbBase>>,
         carry |-> p4 \div LimbBase]

\* x + d for a small d: the wrapped sum and the carry out of bit 63
AddSmall(x, d) ==
    LET p1 == x[1] + d
        p2 == x[2] + (p1 \div LimbBase)
        p3 == x[3] + (p2 \div LimbBase)
        p4 == x[4] + (p3 \div LimbBase)
    IN  [val |-> <<p1 % LimbBase, p2 % LimbBase, p3 % LimbBase, p4 % LimbBase>>,
         carry |-> p4 \div LimbBase]

\* a - b of uint64: wraps modulo 2^64
U64Sub(a, b) ==
    LET d1 == a[1] - b[1]
        b1 == IF d1 < 0 THEN 1 ELSE 0
        d2 == a[2] - b[2] - b1
        b2 == IF d2 < 0 THEN 1 ELSE 0
        d3 == a[3] - b[3] - b2
        b3 == IF d3 < 0 THEN 1 ELSE 0
        d4 == a[4] - b[4] - b3
    IN  <<d1 % LimbBase, d2 % LimbBase, d3 % LimbBase, d4 % LimbBase>>

\* x divided by ten: quotient and remainder
DivMod10(x) ==
    LET c4 == x[4]
        c3 == (c4 % 10) * LimbBase + x[3]
        c2 == (c3 % 10) * LimbBase + x[2]
        c1 == (c2 % 10) * LimbBase + x[1]
    IN  [quo |-> <<c1 \div 10, c2 \div 10, c3 \div 10, c4 \div 10>>,
         rem |-> c1 % 10]

\* fmt.Sprint of a uint64: its decimal digits, no leading zero
RECURSIVE DecimalFrom(_, _)
DecimalFrom(x, acc) ==
    IF x = U64Zero
    THEN acc
    ELSE LET qr == DivMod10(x)
         IN  DecimalFrom(qr.quo, <<DigitChars[qr.rem + 1]>> \o acc)

Sprint(x) == IF x = U64Zero THEN <<"0">> ELSE DecimalFrom(x, <<>>)

\* func ns(sec uint64) uint64 { return sec * 1e9 }: the product wraps
ns(sec) == MulSmall(MulSmall(MulSmall(sec, 1000).val, 1000).val, 1000).val

\* strconv.ParseUint(s, 10, 64): the value, or a syntax or range error
RECURSIVE ParseDigits(_, _, _)
ParseDigits(s, i, n) ==
    IF i > Len(s)
    THEN [val |-> n, err |-> "none"]
    ELSE IF ~IsDigit(s[i])
         THEN [val |-> U64Zero, err |-> "syntax"]
         ELSE LET m == MulSmall(n, 10)
                  a == AddSmall(m.val, DigitVal(s[i]))
              IN  IF m.carry # 0 \/ a.carry # 0
                  THEN [val |-> <<LimbBase - 1, LimbBase - 1, LimbBase - 1, LimbBase - 1>>,
                        err |-> "range"]
                  ELSE ParseDigits(s, i + 1, a.val)

\* ParseUint that takes the empty text for zero
ParseUintLenient(s) ==
    IF s = <<>> THEN [val |-> U64Zero, err |-> "none"] ELSE ParseDigits(s, 1, U64Zero)

ParseUint(s) ==
    IF s = <<>> THEN [val |-> U64Zero, err |-> "syntax"] ELSE ParseDigits(s, 1, U64Zero)

\* (*NumError).Error(): strconv.ParseUint: parsing "s": <cause>
NumErrorText(s, kind) ==
    <<"strconv.ParseUint: parsing ", "\"">> \o s \o
    <<"\"", ": ", IF kind = "syntax" THEN "invalid syntax" ELSE "value out of range">>

(***************************************************************************)
(* readParams                                                              *)
(***************************************************************************)
NoErr == <<>>

\* a query key: present or not, and its first value
Absent == [ok |-> FALSE, v |-> <<>>]

Given(s) == [ok |-> TRUE, v |-> s]

\* params{}
ZeroParams == [start |-> U64Zero, end |-> U64Zero, name |-> <<>>, labels |-> <<>>]

\* LabelPairs that keeps, of the labels of one name, the first only
LabelPairsDedup(words) ==
    LET all == [j \in 1 .. (Len(words) \div 2) |->
                   [Name |-> words[2 * j - 1], Value |-> words[2 * j]]]
        kept == {j \in 1 .. Len(all) : \A i \in 1 .. (j - 1) : all[i].Name # all[j].Name}
    IN  [n \in 1 .. Cardinality(kept) |->
            all[CHOOSE j \in kept : Cardinality({i \in kept : i < j}) = n - 1]]

\* words taken two by two: labels.Label{Name: words[j], Value: words[j+1]}
LabelPairs(words) ==
    [j \in 1 .. (Len(words) \div 2) |-> [Name |-> words[2 * j - 1], Value |-> words[2 * j]]]

\* compileLabels that pairs the words it can and lets a last lone word go
compileLabelsLenient(s, i) ==
    IF SliceFaults(s, i + 1, Len(s) - 1)
    THEN [fault |-> TRUE, err |-> NoErr, labels |-> <<>>]
    ELSE [fault |-> FALSE, err |-> NoErr,
          labels |-> LabelPairs(FieldsFunc(Slice(s, i + 1, Len(s) - 1), {"=", ","}))]

\* the label block of a name value whose first '{' is at i (0-based):
\* a fault of the slice expression, a compile error, or the labels
compileLabels(s, i) ==
    IF SliceFaults(s, i + 1, Len(s) - 1)
    THEN [fault |-> TRUE, err |-> NoErr, labels |-> <<>>]
    ELSE LET promqllike == Slice(s, i + 1, Len(s) - 1)
             words == FieldsFunc(promqllike, {"=", ","})
             sz == Len(words)
         IN  IF Len(promqllike) > 0
             THEN IF sz = 0 \/ sz % 2 # 0
                  THEN [fault |-> FALSE, err |-> <<"failed to compile labels">>, labels |-> <<>>]
                  ELSE [fault |-> FALSE, err |-> NoErr, labels |-> LabelPairs(words)]
             ELSE [fault |-> FALSE, err |-> NoErr, labels |-> <<>>]

\* readParams(qs): the params built so far, the error (NoErr: nil), and
\* whether the call faulted (index out of range) instead of returning
readParams(qs) ==
    LET p0 == ZeroParams
        st == ParseUint(qs.from.v)
        p1 == [p0 EXCEPT !.start = st.val]
        nm == qs.name.v
        idx == IndexOf(nm, "{")
        i == IF idx < 0 THEN Len(nm) ELSE idx
        lb == IF idx < 0
              THEN [fault |-> FALSE, err |-> NoErr, labels |-> <<>>]
              ELSE compileLabels(nm, idx)
        p2 == [p1 EXCEPT !.labels = lb.labels, !.name = Slice(nm, 0, i)]
        en == ParseUint(qs.until.v)
        p3 == [p2 EXCEPT !.end = en.val]
        ret(p, e) == [p |-> p, err |-> e, fault |-> FALSE]
    IN  IF ~qs.from.ok THEN ret(p0, <<"required start time is missing">>)
        ELSE IF st.err # "none"
        THEN ret(p0, <<"failed to parse start time: ">> \o NumErrorText(qs.from.v, st.err))
        ELSE IF ~qs.name.ok THEN ret(p1, <<"required labels are missing">>)
        ELSE IF lb.fault THEN [p |-> p1, err |-> NoErr, fault |-> TRUE]
        ELSE IF lb.err # NoErr THEN ret(p1, lb.err)
        ELSE IF ~qs.until.ok THEN ret(p2, <<"required end time is missing">>)
        ELSE IF en.err # "none"
        THEN ret(p2, <<"failed to parse end time: ">> \o NumErrorText(qs.until.v, en.err))
        ELSE ret(p3, NoErr)

(***************************************************************************)
(* Requests the model is handed                                            *)
(***************************************************************************)
Query(from, name, until, format, sampleRate) ==
    [from |-> from, name |-> name, until |-> until, format |-> format,
     sampleRate |-> sampleRate]

jfr == <<"j", "f", "r">>

svc == <<"s", "v", "c">>

\* from=1000&until=2000&name=svc{env=prod}&format=jfr
QueryPlain ==
    Query(Given(<<"1", "0", "0", "0">>),
          Given(svc \o <<"{", "e", "n", "v", "=", "p", "r", "o", "d", "}">>),
          Given(<<"2", "0", "0", "0">>), Given(jfr), Absent)

\* until before from, a sample rate, no label block
QueryBackwards ==
    Query(Given(<<"2", "0", "0", "0">>), Given(svc), Given(<<"1", "0", "0", "0">>),
          Given(jfr), Given(<<"1", "0", "0">>))

\* seconds whose nanoseconds exceed 64 bits, a label name given twice
QueryFar ==
    Query(Given(<<"1", "8", "4", "4", "6", "7", "4", "4", "0", "7", "4">>),
          Given(svc \o <<"{", "a", "=", "1", ",", "a", "=", "2", ",", "b", "=", "3", "}">>),
          Given(<<"1", "8", "4", "4", "6", "7", "4", "4", "0", "7", "5">>), Given(jfr), Absent)

ValidQueries == {QueryPlain, QueryBackwards, QueryFar}

\* queries readParams rejects, or faults on
BadQueries ==
    { [QueryPlain EXCEPT !.from = Absent],
      [QueryPlain EXCEPT !.from = Given(<<"x">>)],
      [QueryPlain EXCEPT !.name = Absent],
      [QueryPlain EXCEPT !.name = Given(svc \o <<"{", "e", "n", "v", "}">>)],
      [QueryPlain EXCEPT !.name = Given(<<"a", "p", "p", "{">>)],
      [QueryPlain EXCEPT !.until = Absent],
      [QueryPlain EXCEPT !.until = Given(<<"-", "1">>)] }

\* valid parameters, but a format or a sample rate readProfiles rejects
OddQueries ==
    { [QueryPlain EXCEPT !.format = Given(<<"f", "o", "o">>)],
      [QueryPlain EXCEPT !.format = Absent],
      [QueryPlain EXCEPT !.sampleRate = Given(<<"h", "z">>)] }

Queries == ValidQueries \cup BadQueries \cup OddQueries

Methods == {"POST", "GET"}

FilePart(field, filename, openErr) ==
    [field |-> field, filename |-> filename, openErr |-> openErr]

\* a multipart body: whether ParseMultipartForm fails on it, and its file parts
Bodies ==
    { [parseErr |-> TRUE, files |-> <<>>],
      [parseErr |-> FALSE, files |-> <<FilePart(<<"f", "i", "l", "e">>, jfr, FALSE)>>],
      [parseErr |-> FALSE, files |-> <<FilePart(jfr, <<"a", ".", "j", "f", "r">>, FALSE)>>],
      [parseErr |-> FALSE, files |-> <<FilePart(jfr, jfr, TRUE)>>],
      [parseErr |-> FALSE, files |-> <<FilePart(jfr, jfr, FALSE)>>] }

NoRequest ==
    [method |-> "", query |-> Query(Absent, Absent, Absent, Absent, Absent),
     body |-> [parseErr |-> FALSE, files |-> <<>>]]

\* profile_types.ProfileIR values the parser may return
CpuProfile ==
    [Type |-> [Type |-> "cpu", SampleType |-> <<"samples">>, SampleUnit |-> <<"count">>,
               PeriodType |-> "cpu", PeriodUnit |-> "ns"],
     Payload |-> <<"P">>, PayloadType |-> 0]

AllocProfile ==
    [Type |-> [Type |-> "memory", SampleType |-> <<"alloc_objects", "alloc_space">>,
               SampleUnit |-> <<"count", "bytes">>,
               PeriodType |-> "space", PeriodUnit |-> "bytes"],
     Payload |-> <<"Q", "Q">>, PayloadType |-> 0]

Profiles == {CpuProfile, AllocProfile}

RECURSIVE SeqsUpTo(_, _)
SeqsUpTo(S, n) ==
    IF n = 0
    THEN {<<>>}
    ELSE LET shorter == SeqsUpTo(S, n - 1)
         IN  shorter \cup {Append(q, x) : q \in shorter, x \in S}

\* what one Parse call may return when it does not fail
ParseResults == SeqsUpTo(Profiles, MaxProfiles)

(***************************************************************************)
(* Record assembly (readProfiles, the loop over the parsed profiles)       *)
(***************************************************************************)
\* pcommon.Map.PutStr: a key already there keeps its place and takes the value
PutStr(m, k, v) ==
    IF \E i \in 1 .. Len(m) : m[i].key = k
    THEN [i \in 1 .. Len(m) |-> IF m[i].key = k THEN [key |-> k, val |-> v] ELSE m[i]]
    ELSE Append(m, [key |-> k, val |-> v])

RECURSIVE PutLabels(_, _, _)
PutLabels(tm, lbls, i) ==
    IF i > Len(lbls) THEN tm ELSE PutLabels(PutStr(tm, lbls[i].Name, lbls[i].Value), lbls, i + 1)

\* baseAttrs with the duration of a window that ends before it starts
\* taken as zero
baseAttrsClamped(pm) ==
    [duration_ns |-> IF U64Sub(pm.end, pm.start) = U64Sub(U64Zero, U64Sub(pm.start, pm.end))
                        /\ \E i \in 1 .. 4 :
                              /\ pm.end[5 - i] < pm.start[5 - i]
                              /\ \A j \in 1 .. (i - 1) : pm.end[5 - j] = pm.start[5 - j]
                     THEN <<"0">>
                     ELSE Sprint(ns(U64Sub(pm.end, pm.start))),
     service_name |-> pm.name,
     tags |-> PutLabels(<<>>, pm.labels, 1),
     type |-> "", sample_types |-> <<>>, sample_units |-> <<>>,
     period_type |-> "", period_unit |-> "", payload_type |-> <<>>]

\* the attributes readProfiles puts before it calls setAttrsFromProfile
baseAttrs(pm) ==
    [duration_ns |-> Sprint(ns(U64Sub(pm.end, pm.start))),
     service_name |-> pm.name,
     tags |-> PutLabels(<<>>, pm.labels, 1),
     type |-> "", sample_types |-> <<>>, sample_units |-> <<>>,
     period_type |-> "", period_unit |-> "", payload_type |-> <<>>]

\* setAttrsFromProfile(prof, m); fail names the FromRaw call that fails, if any
setAttrsFromProfile(prof, m, fail) ==
    LET m1 == [m EXCEPT !.type = prof.Type.Type]
        m2 == [m1 EXCEPT !.sample_types = prof.Type.SampleType]
        m3 == [m2 EXCEPT !.sample_units = prof.Type.SampleUnit]
        m4 == [m3 EXCEPT !.period_type = prof.Type.PeriodType,
                         !.period_unit = prof.Type.PeriodUnit,
                         !.payload_type = Sprint(<<prof.PayloadType, 0, 0, 0>>)]
    IN  IF fail = "sample_types" THEN [m |-> m1, err |-> <<"sample_types">>]
        ELSE IF fail = "sample_units" THEN [m |-> m2, err |-> <<"sample_units">>]
        ELSE [m |-> m4, err |-> NoErr]

\* outputRecord with the timestamp taken from the end of the window
outputRecordEndStamp(pm, pr, fail) ==
    LET at == setAttrsFromProfile(pr, baseAttrs(pm), fail)
    IN  [rec |-> [Timestamp |-> ns(pm.end), Attributes |-> at.m,
                  Body |-> IF at.err = NoErr THEN pr.Payload ELSE <<>>],
         err |-> at.err]

\* one turn of the loop: the record appended for profile pr
outputRecord(pm, pr, fail) ==
    LET at == setAttrsFromProfile(pr, baseAttrs(pm), fail)
    IN  [rec |-> [Timestamp |-> ns(pm.start), Attributes |-> at.m,
                  Body |-> IF at.err = NoErr THEN pr.Payload ELSE <<>>],
         err |-> at.err]

\* the loop: records so far, the error that ended it (failAt = 0: none
\* fails), and the payload bytes summed
RECURSIVE assembleFrom(_, _, _, _, _, _, _)
assembleFrom(pm, ps, i, failAt, fail, recs, sz) ==
    IF i > Len(ps)
    THEN [records |-> recs, err |-> NoErr, sz |-> sz]
    ELSE LET o == outputRecord(pm, ps[i], IF i = failAt THEN fail ELSE "none")
         IN  IF o.err # NoErr
             THEN [records |-> Append(recs, o.rec),
                   err |-> <<"failed to parse sample types: ">> \o o.err, sz |-> sz]
             ELSE assembleFrom(pm, ps, i + 1, failAt, fail, Append(recs, o.rec),
                               sz + Len(ps[i].Payload))

assemble(pm, ps, failAt, fail) == assembleFrom(pm, ps, 1, failAt, fail, <<>>, 0)

(***************************************************************************)
(* State                                                                   *)
(***************************************************************************)
VARIABLES
    req,        \* req[r]: the request: method, query, multipart body
    hdr,        \* hdr[r]: the request's Content-Type as the worker leaves it
    hpc,        \* hpc[r]: where httpHandlerIngest is
    wpc,        \* wpc[r]: where the goroutine started by handle() is
    ctxDone,    \* ctxDone[r]: the deadline context is done
    doneAt,     \* doneAt[r]: wpc[r] when the deadline elapsed ("" until then)
    resp,       \* resp[r]: the writeResponse calls on the ResponseWriter, in order
    metrics,    \* metrics[r]: the observations recorded for the request, in order
    logged,     \* logged[r]: the logger.Error messages
    pm,         \* pm[r]: the params readParams returned
    perr,       \* perr[r]: the error readParams returned
    err,        \* err[r]: the error readProfiles is returning
    cerr,       \* cerr[r]: the error ConsumeLogs returned
    md,         \* md[r]: Metadata.SampleRateHertz
    ps,         \* ps[r]: the profiles Parse returned
    pl,         \* pl[r]: the log records of the plog.Logs being built
    file,       \* file[r]: the multipart file: "none", "open", "closed"
    buf,        \* buf[r]: the pooled buffer the request holds (0: none)
    bufLen,     \* bufLen[b]: bytes in buffer b
    pool,       \* the buffers resting in uncompressedBufPool
    consumed,   \* consumed[r]: the ConsumeLogs calls: the batch, whether ctx was
                \* done and whether the handler had answered by then
    did,        \* did[r]: the stages of readProfiles the worker has entered
    panicking,  \* panicking[r]: the worker is unwinding a run-time panic
    crashed     \* the process died of an unrecovered panic

vars == <<req, hdr, hpc, wpc, ctxDone, doneAt, resp, metrics, logged, pm, perr, err,
          cerr, md, ps, pl, file, buf, bufLen, pool, consumed, did, panicking, crashed>>

\* the worker's own variables, and the pool
wlocal == <<pm, perr, err, cerr, md, ps, pl, file, did, hdr>>
pooled == <<buf, bufLen, pool>>
outs == <<resp, metrics, logged>>

NoBuf == 0

Init ==
    /\ req = [r \in Requests |-> NoRequest]
    /\ hdr = [r \in Requests |-> ""]
    /\ hpc = [r \in Requests |-> "idle"]
    /\ wpc = [r \in Requests |-> "none"]
    /\ ctxDone = [r \in Requests |-> FALSE]
    /\ doneAt = [r \in Requests |-> ""]
    /\ resp = [r \in Requests |-> <<>>]
    /\ metrics = [r \in Requests |-> <<>>]
    /\ logged = [r \in Requests |-> <<>>]
    /\ pm = [r \in Requests |-> ZeroParams]
    /\ perr = [r \in Requests |-> NoErr]
    /\ err = [r \in Requests |-> NoErr]
    /\ cerr = [r \in Requests |-> NoErr]
    /\ md = [r \in Requests |-> U64Zero]
    /\ ps = [r \in Requests |-> <<>>]
    /\ pl = [r \in Requests |-> <<>>]
    /\ file = [r \in Requests |-> "none"]
    /\ buf = [r \in Requests |-> NoBuf]
    /\ bufLen = [b \in Requests |-> 0]
    /\ pool = {}
    /\ consumed = [r \in Requests |-> <<>>]
    /\ did = [r \in Requests |-> {}]
    /\ panicking = [r \in Requests |-> FALSE]
    /\ crashed = FALSE

(***************************************************************************)
(* Responses, metrics, log                                                 *)
(***************************************************************************)
StatusNoContent == 204
StatusBadRequest == 400
StatusMethodNotAllowed == 405
StatusRequestTimeout == 408
StatusInternalServerError == 500

errorCodeError == <<"1">>

errorCodeSuccess == <<>>

\* newOtelcolAttrSetHttp(service, errorCode)
newOtelcolAttrSetHttp(service, errorCode) ==
    <<[key |-> "service", val |-> service], [key |-> "error_code", val |-> errorCode]>>

\* newOtelcolAttrSetPayloadSizeBytes(service, typ, encoding)
newOtelcolAttrSetPayloadSizeBytes(service, typ, encoding) ==
    <<[key |-> "service", val |-> service], [key |-> "type", val |-> typ],
      [key |-> "encoding", val |-> encoding]>>

Observation(name, attrs, value, unit) ==
    [name |-> name, attrs |-> attrs, value |-> value, unit |-> unit]

\* writeResponse(w, contentType, statusCode, payload), called by who
writeResponse(w, who, contentType, statusCode, payload) ==
    Append(w, [by |-> who, status |-> statusCode, ctype |-> contentType, body |-> payload])

writeResponseNoContent(w, who) == writeResponse(w, who, "", StatusNoContent, <<>>)

\* the two observations handleError records: its latency subtracts the
\* start in milliseconds from time.Now().Unix()
errorObservations(service, errorCode) ==
    <<Observation("http_request_total", newOtelcolAttrSetHttp(service, errorCode), 1, "1"),
      Observation("http_response_time_millis", newOtelcolAttrSetHttp(service, errorCode),
                  0, "Unix - UnixMilli")>>

\* the two observations of the success path of handle
successObservations(service) ==
    <<Observation("http_request_total", newOtelcolAttrSetHttp(service, errorCodeSuccess),
                  1, "1"),
      Observation("http_response_time_millis",
                  newOtelcolAttrSetHttp(service, errorCodeSuccess),
                  0, "UnixMilli - UnixMilli")>>

\* recv.handleError(ctx, resp, "text/plain", statusCode, msg, service, errorCode)
handleError(r, who, statusCode, msg, service, errorCode) ==
    /\ metrics' = [metrics EXCEPT ![r] = @ \o errorObservations(service, errorCode)]
    /\ logged' = [logged EXCEPT ![r] = Append(@, msg)]
    /\ resp' = [resp EXCEPT ![r] = writeResponse(@, who, "text/plain", statusCode, msg)]

(***************************************************************************)
(* httpHandlerIngest                                                       *)
(***************************************************************************)
Live == ~crashed

\* the server hands request r to httpHandlerIngest, which derives the
\* deadline context (line 98)
Arrive(r) ==
    /\ Live
    /\ hpc[r] = "idle"
    /\ \E m \in Methods, q \in Queries, b \in Bodies :
          req' = [req EXCEPT ![r] = [method |-> m, query |-> q, body |-> b]]
    /\ hdr' = [hdr EXCEPT ![r] = "multipart/form-data"]
    /\ hpc' = [hpc EXCEPT ![r] = "handle"]
    /\ UNCHANGED <<wpc, ctxDone, doneAt, outs, pm, perr, err, cerr, md, ps, pl, file,
                   pooled, consumed, did, panicking, crashed>>

\* the timeout of the context elapses: Done() is closed; a handler parked
\* in the select is woken on that case
DeadlineExpires(r) ==
    /\ Live
    /\ hpc[r] \in {"handle", "select", "parked", "received"}
    /\ ~ctxDone[r]
    /\ ctxDone' = [ctxDone EXCEPT ![r] = TRUE]
    /\ doneAt' = [doneAt EXCEPT ![r] = wpc[r]]
    /\ hpc' = [hpc EXCEPT ![r] = IF @ = "parked" THEN "timeout" ELSE @]
    /\ UNCHANGED <<req, wpc, outs, wlocal, pooled, consumed, panicking, crashed>>

\* recv.handle(ctx, resp, req), the select's second channel operand: makes
\* the channel and starts the worker
handle(r) ==
    /\ Live
    /\ hpc[r] = "handle"
    /\ hpc' = [hpc EXCEPT ![r] = "select"]
    /\ wpc' = [wpc EXCEPT ![r] = "readParams"]
    /\ UNCHANGED <<req, ctxDone, doneAt, outs, wlocal, pooled, consumed, panicking,
                   crashed>>

\* the worker after its deferred send has been received
afterSend(r) == IF panicking[r] THEN "unwinding" ELSE "exited"

\* selectEnter as a handler that looks at the context only once the worker
\* has signalled would be: it parks although the context is done
selectEnterWaits(r) ==
    /\ Live
    /\ hpc[r] = "select"
    /\ IF wpc[r] = "send"
       THEN /\ hpc' = [hpc EXCEPT ![r] = IF ctxDone[r] THEN "timeout" ELSE "received"]
            /\ wpc' = [wpc EXCEPT ![r] = IF ctxDone[r] THEN @ ELSE afterSend(r)]
       ELSE /\ hpc' = [hpc EXCEPT ![r] = "parked"]
            /\ UNCHANGED wpc
    /\ UNCHANGED <<req, ctxDone, doneAt, outs, wlocal, pooled, consumed, panicking,
                   crashed>>

\* the select is entered: with no case ready the handler parks; a ready
\* case is taken, and of two ready cases either one
selectEnter(r) ==
    /\ Live
    /\ hpc[r] = "select"
    /\ \/ /\ ~ctxDone[r]
          /\ wpc[r] # "send"
          /\ hpc' = [hpc EXCEPT ![r] = "parked"]
          /\ UNCHANGED wpc
       \/ /\ ctxDone[r]
          /\ hpc' = [hpc EXCEPT ![r] = "timeout"]
          /\ UNCHANGED wpc
       \/ /\ wpc[r] = "send"
          /\ hpc' = [hpc EXCEPT ![r] = "received"]
          /\ wpc' = [wpc EXCEPT ![r] = afterSend(r)]
    /\ UNCHANGED <<req, ctxDone, doneAt, outs, wlocal, pooled, consumed, panicking,
                   crashed>>

\* the worker's deferred send finds the handler parked in the select
signal(r) ==
    /\ Live
    /\ hpc[r] = "parked"
    /\ wpc[r] = "send"
    /\ hpc' = [hpc EXCEPT ![r] = "received"]
    /\ wpc' = [wpc EXCEPT ![r] = afterSend(r)]
    /\ UNCHANGED <<req, ctxDone, doneAt, outs, wlocal, pooled, consumed, panicking,
                   crashed>>

\* case <-ctx.Done(): handleError with 408, return; the deferred cancel runs
timeoutCase(r) ==
    /\ Live
    /\ hpc[r] = "timeout"
    /\ handleError(r, "handler", StatusRequestTimeout,
                   <<"receiver timeout elapsed: ", "cfg.Timeout">>, <<>>, errorCodeError)
    /\ hpc' = [hpc EXCEPT ![r] = "done"]
    /\ ctxDone' = [ctxDone EXCEPT ![r] = TRUE]
    /\ UNCHANGED <<req, wpc, doneAt, wlocal, pooled, consumed, panicking, crashed>>

\* case <-recv.handle(...): nothing to do, return; the deferred cancel runs
receivedCase(r) ==
    /\ Live
    /\ hpc[r] = "received"
    /\ hpc' = [hpc EXCEPT ![r] = "done"]
    /\ ctxDone' = [ctxDone EXCEPT ![r] = TRUE]
    /\ UNCHANGED <<req, wpc, doneAt, outs, wlocal, pooled, consumed, panicking,
                   crashed>>

\* httpHandlerIngest
httpHandlerIngest(r) ==
    \/ Arrive(r)
    \/ handle(r)
    \/ selectEnter(r)
    \/ timeoutCase(r)
    \/ receivedCase(r)

(***************************************************************************)
(* The worker goroutine of handle()                                        *)
(***************************************************************************)
formatJfr == jfr

\* validate with the method looked at first: a request that is not a POST
\* is answered 405 before its query is read
validateMethodFirst(r) ==
    LET res == readParams(req[r].query)
    IN  /\ Live
        /\ wpc[r] = "readParams"
        /\ IF req[r].method # "POST"
           THEN /\ handleError(r, "worker", StatusMethodNotAllowed,
                               <<"method not allowed, supported: [", "POST", "]">>,
                               <<>>, errorCodeError)
                /\ wpc' = [wpc EXCEPT ![r] = "send"]
                /\ UNCHANGED <<pm, perr, panicking>>
           ELSE IF res.fault
           THEN /\ panicking' = [panicking EXCEPT ![r] = TRUE]
                /\ wpc' = [wpc EXCEPT ![r] = "send"]
                /\ UNCHANGED <<pm, perr, outs>>
           ELSE /\ pm' = [pm EXCEPT ![r] = res.p]
                /\ perr' = [perr EXCEPT ![r] = res.err]
                /\ IF res.err # NoErr
                   THEN /\ handleError(r, "worker", StatusBadRequest, <<"bad url query">>,
                                       <<>>, errorCodeError)
                        /\ wpc' = [wpc EXCEPT ![r] = "send"]
                   ELSE /\ wpc' = [wpc EXCEPT ![r] = "method"]
                        /\ UNCHANGED outs
                /\ UNCHANGED panicking
        /\ UNCHANGED <<req, hdr, hpc, ctxDone, doneAt, err, cerr, md, ps, pl, file,
                       pooled, consumed, did, crashed>>

\* lines 125-130: readParams; a fault unwinds into the deferred send
validate(r) ==
    LET res == readParams(req[r].query)
    IN  /\ Live
        /\ wpc[r] = "readParams"
        /\ IF res.fault
           THEN /\ panicking' = [panicking EXCEPT ![r] = TRUE]
                /\ wpc' = [wpc EXCEPT ![r] = "send"]
                /\ UNCHANGED <<pm, perr, outs>>
           ELSE /\ pm' = [pm EXCEPT ![r] = res.p]
                /\ perr' = [perr EXCEPT ![r] = res.err]
                /\ IF res.err # NoErr
                   THEN /\ handleError(r, "worker", StatusBadRequest, <<"bad url query">>,
                                       <<>>, errorCodeError)
                        /\ wpc' = [wpc EXCEPT ![r] = "send"]
                   ELSE /\ wpc' = [wpc EXCEPT ![r] = "method"]
                        /\ UNCHANGED outs
                /\ UNCHANGED panicking
        /\ UNCHANGED <<req, hdr, hpc, ctxDone, doneAt, err, cerr, md, ps, pl, file,
                       pooled, consumed, did, crashed>>

\* lines 132-135: only POST goes on
checkMethod(r) ==
    /\ Live
    /\ wpc[r] = "method"
    /\ IF req[r].method # "POST"
       THEN /\ handleError(r, "worker", StatusMethodNotAllowed,
                           <<"method not allowed, supported: [", "POST", "]">>,
                           pm[r].name, errorCodeError)
            /\ wpc' = [wpc EXCEPT ![r] = "send"]
       ELSE /\ wpc' = [wpc EXCEPT ![r] = "format"]
            /\ UNCHANGED outs
    /\ UNCHANGED <<req, hpc, ctxDone, doneAt, wlocal, pooled, consumed, panicking,
                   crashed>>

\* checkFormat that picks the parser whatever the format value is
checkFormatAny(r) ==
    /\ Live
    /\ wpc[r] = "format"
    /\ wpc' = [wpc EXCEPT ![r] = "multipart"]
    /\ UNCHANGED <<req, hdr, hpc, ctxDone, doneAt, outs, pm, perr, err, cerr, md, ps, pl,
                   file, pooled, consumed, did, panicking, crashed>>

\* readProfiles, lines 247-254: the parser is chosen by the format value
checkFormat(r) ==
    /\ Live
    /\ wpc[r] = "format"
    /\ IF req[r].query.format.ok /\ req[r].query.format.v = jfr
       THEN /\ wpc' = [wpc EXCEPT ![r] = "multipart"]
            /\ UNCHANGED err
       ELSE /\ wpc' = [wpc EXCEPT ![r] = "afterRead"]
            /\ err' = [err EXCEPT ![r] = <<"unsupported format, supported: [jfr]">>]
    /\ UNCHANGED <<req, hdr, hpc, ctxDone, doneAt, outs, pm, perr, cerr, md, ps, pl, file,
                   pooled, consumed, did, panicking, crashed>>

\* jfrParts that takes the file parts of every field
anyParts(body) == body.files

\* mf.File[formatJfr]: the file parts under the field key jfr
jfrParts(body) == SelectSeq(body.files, LAMBDA f : f.field = formatJfr)

\* recv.openMultipartJfr(req): the error, or NoErr with the file open
openMultipartJfr(body) ==
    IF body.parseErr
    THEN <<"failed to parse multipart request: ", "multipart error">>
    ELSE IF jfrParts(body) = <<>>
    THEN <<"required jfr part is missing">>
    ELSE IF jfrParts(body)[1].filename # formatJfr
    THEN <<"jfr filename is not '", "jfr", "'">>
    ELSE IF jfrParts(body)[1].openErr
    THEN <<"failed to open jfr file">>
    ELSE NoErr

\* readProfiles, lines 256-261
extract(r) ==
    /\ Live
    /\ wpc[r] = "multipart"
    /\ did' = [did EXCEPT ![r] = @ \cup {"multipart"}]
    /\ LET e == openMultipartJfr(req[r].body)
       IN  /\ err' = [err EXCEPT ![r] = e]
           /\ file' = [file EXCEPT ![r] = IF e = NoErr THEN "open" ELSE @]
           /\ wpc' = [wpc EXCEPT ![r] = IF e = NoErr THEN "acquire" ELSE "afterRead"]
    /\ UNCHANGED <<req, hdr, hpc, ctxDone, doneAt, outs, pm, perr, cerr, md, ps, pl,
                   pooled, consumed, panicking, crashed>>

\* acquireBuf(p): p.Get() hands out a resting buffer or nil, and for nil
\* a new buffer is made (buffer r is the one request r makes)
acquireBuf(r) ==
    /\ Live
    /\ wpc[r] = "acquire"
    /\ \/ \E b \in pool :
             /\ pool' = pool \ {b}
             /\ buf' = [buf EXCEPT ![r] = b]
             /\ UNCHANGED bufLen
       \/ /\ buf' = [buf EXCEPT ![r] = r]
          /\ bufLen' = [bufLen EXCEPT ![r] = 0]
          /\ UNCHANGED pool
    /\ did' = [did EXCEPT ![r] = @ \cup {"acquire"}]
    /\ wpc' = [wpc EXCEPT ![r] = "decompress"]
    /\ UNCHANGED <<req, hdr, hpc, ctxDone, doneAt, outs, pm, perr, err, cerr, md, ps, pl,
                   file, consumed, panicking, crashed>>

\* decompress that returns its error past the release of the buffer
decompressLeaks(r) ==
    /\ Live
    /\ wpc[r] = "decompress"
    /\ did' = [did EXCEPT ![r] = @ \cup {"decompress"}]
    /\ \E n \in 0 .. MaxBody, ok \in BOOLEAN :
          /\ bufLen' = [bufLen EXCEPT ![buf[r]] = @ + n]
          /\ IF ok
             THEN /\ metrics' = [metrics EXCEPT ![r] = Append(@,
                         Observation("request_body_uncompressed_size_bytes",
                                     newOtelcolAttrSetPayloadSizeBytes(pm[r].name, "jfr", ""),
                                     bufLen[buf[r]] + n, "By"))]
                  /\ hdr' = [hdr EXCEPT ![r] = "application/octet-stream"]
                  /\ wpc' = [wpc EXCEPT ![r] = "sampleRate"]
                  /\ UNCHANGED err
             ELSE /\ err' = [err EXCEPT ![r] =
                                <<"failed to decompress body: ", "decompress error">>]
                  /\ wpc' = [wpc EXCEPT ![r] = "afterRead"]
                  /\ UNCHANGED <<metrics, hdr>>
    /\ UNCHANGED <<req, hpc, ctxDone, doneAt, resp, logged, pm, perr, cerr, md, ps, pl,
                   file, buf, pool, consumed, panicking, crashed>>

\* lines 268-274: Decompress writes n bytes into the buffer and fails or not
decompress(r) ==
    /\ Live
    /\ wpc[r] = "decompress"
    /\ did' = [did EXCEPT ![r] = @ \cup {"decompress"}]
    /\ \E n \in 0 .. MaxBody, ok \in BOOLEAN :
          /\ bufLen' = [bufLen EXCEPT ![buf[r]] = @ + n]
          /\ IF ok
             THEN /\ metrics' = [metrics EXCEPT ![r] = Append(@,
                         Observation("request_body_uncompressed_size_bytes",
                                     newOtelcolAttrSetPayloadSizeBytes(pm[r].name, "jfr", ""),
                                     bufLen[buf[r]] + n, "By"))]
                  /\ hdr' = [hdr EXCEPT ![r] = "application/octet-stream"]
                  /\ wpc' = [wpc EXCEPT ![r] = "sampleRate"]
                  /\ UNCHANGED err
             ELSE /\ err' = [err EXCEPT ![r] =
                                <<"failed to decompress body: ", "decompress error">>]
                  /\ wpc' = [wpc EXCEPT ![r] = "release"]
                  /\ UNCHANGED <<metrics, hdr>>
    /\ UNCHANGED <<req, hpc, ctxDone, doneAt, resp, logged, pm, perr, cerr, md, ps, pl,
                   file, buf, pool, consumed, panicking, crashed>>

\* lines 276-284: the optional sampleRate
sampleRate(r) ==
    /\ Live
    /\ wpc[r] = "sampleRate"
    /\ LET q == req[r].query.sampleRate
           hz == ParseUint(q.v)
       IN  IF q.ok /\ hz.err # "none"
           THEN /\ err' = [err EXCEPT ![r] =
                              <<"failed to parse rate: ">> \o NumErrorText(q.v, hz.err)]
                /\ wpc' = [wpc EXCEPT ![r] = "release"]
                /\ UNCHANGED md
           ELSE /\ md' = [md EXCEPT ![r] = IF q.ok THEN hz.val ELSE U64Zero]
                /\ wpc' = [wpc EXCEPT ![r] = "parse"]
                /\ UNCHANGED err
    /\ UNCHANGED <<req, hdr, hpc, ctxDone, doneAt, outs, pm, perr, cerr, ps, pl, file,
                   pooled, consumed, did, panicking, crashed>>

\* lines 286-289: pa.Parse(buf, md) returns profiles or fails
parse(r) ==
    /\ Live
    /\ wpc[r] = "parse"
    /\ did' = [did EXCEPT ![r] = @ \cup {"parse"}]
    /\ \/ /\ err' = [err EXCEPT ![r] = <<"failed to parse pprof: ", "parse error">>]
          /\ wpc' = [wpc EXCEPT ![r] = "release"]
          /\ UNCHANGED ps
       \/ \E out \in ParseResults :
             /\ ps' = [ps EXCEPT ![r] = out]
             /\ wpc' = [wpc EXCEPT ![r] = "assemble"]
             /\ UNCHANGED err
    /\ UNCHANGED <<req, hdr, hpc, ctxDone, doneAt, outs, pm, perr, cerr, md, pl, file,
                   pooled, consumed, panicking, crashed>>

\* lines 291-312: the loop, then the parsed-size observation
assembleLogs(r) ==
    /\ Live
    /\ wpc[r] = "assemble"
    /\ \E failAt \in 0 .. Len(ps[r]), fail \in {"sample_types", "sample_units"} :
          LET a == assemble(pm[r], ps[r], failAt, fail)
          IN  /\ pl' = [pl EXCEPT ![r] = a.records]
              /\ err' = [err EXCEPT ![r] = a.err]
              /\ metrics' = [metrics EXCEPT ![r] =
                    IF a.err = NoErr
                    THEN Append(@, Observation("parsed_body_uncompressed_size_bytes",
                                   newOtelcolAttrSetPayloadSizeBytes(pm[r].name, "pprof", ""),
                                   a.sz, "By"))
                    ELSE @]
    /\ wpc' = [wpc EXCEPT ![r] = "release"]
    /\ UNCHANGED <<req, hdr, hpc, ctxDone, doneAt, resp, logged, pm, perr, cerr, md, ps,
                   file, pooled, consumed, did, panicking, crashed>>

\* releaseBuf that puts the buffer back as it is, without buf.Reset()
releaseBufNoReset(r) ==
    /\ Live
    /\ wpc[r] = "release"
    /\ pool' = pool \cup {buf[r]}
    /\ buf' = [buf EXCEPT ![r] = NoBuf]
    /\ file' = [file EXCEPT ![r] = "closed"]
    /\ wpc' = [wpc EXCEPT ![r] = "afterRead"]
    /\ UNCHANGED <<req, hdr, hpc, ctxDone, doneAt, outs, pm, perr, err, cerr, md, ps, pl,
                   consumed, did, panicking, crashed, bufLen>>

\* the deferred calls of readProfiles: releaseBuf (buf.Reset, p.Put), f.Close
releaseBuf(r) ==
    /\ Live
    /\ wpc[r] = "release"
    /\ bufLen' = [bufLen EXCEPT ![buf[r]] = 0]
    /\ pool' = pool \cup {buf[r]}
    /\ buf' = [buf EXCEPT ![r] = NoBuf]
    /\ file' = [file EXCEPT ![r] = "closed"]
    /\ wpc' = [wpc EXCEPT ![r] = "afterRead"]
    /\ UNCHANGED <<req, hdr, hpc, ctxDone, doneAt, outs, pm, perr, err, cerr, md, ps, pl,
                   consumed, did, panicking, crashed>>

\* afterRead without the test for an empty batch
afterReadNoEmptyTest(r) ==
    /\ Live
    /\ wpc[r] = "afterRead"
    /\ IF err[r] # NoErr
       THEN /\ handleError(r, "worker", StatusBadRequest, err[r], pm[r].name,
                           errorCodeError)
            /\ wpc' = [wpc EXCEPT ![r] = "send"]
       ELSE /\ wpc' = [wpc EXCEPT ![r] = "consume"]
            /\ UNCHANGED outs
    /\ UNCHANGED <<req, hpc, ctxDone, doneAt, wlocal, pooled, consumed, panicking,
                   crashed>>

\* handle, lines 138-146: the error of readProfiles answers 400, an empty
\* batch answers 204 and returns
afterRead(r) ==
    /\ Live
    /\ wpc[r] = "afterRead"
    /\ IF err[r] # NoErr
       THEN /\ handleError(r, "worker", StatusBadRequest, err[r], pm[r].name,
                           errorCodeError)
            /\ wpc' = [wpc EXCEPT ![r] = "send"]
       ELSE IF Len(pl[r]) = 0
       THEN /\ resp' = [resp EXCEPT ![r] = writeResponseNoContent(@, "worker")]
            /\ wpc' = [wpc EXCEPT ![r] = "send"]
            /\ UNCHANGED <<metrics, logged>>
       ELSE /\ wpc' = [wpc EXCEPT ![r] = "consume"]
            /\ UNCHANGED outs
    /\ UNCHANGED <<req, hpc, ctxDone, doneAt, wlocal, pooled, consumed, panicking,
                   crashed>>

\* line 150: recv.next.ConsumeLogs(ctx, pl) returns nil or an error
consume(r) ==
    /\ Live
    /\ wpc[r] = "consume"
    /\ consumed' = [consumed EXCEPT ![r] =
                       Append(@, [batch |-> pl[r], ctxDone |-> ctxDone[r],
                                  answered |-> \E i \in 1 .. Len(resp[r]) :
                                                  resp[r][i].by = "handler"])]
    /\ \E e \in {NoErr, <<"consumer error">>} : cerr' = [cerr EXCEPT ![r] = e]
    /\ wpc' = [wpc EXCEPT ![r] = "afterConsume"]
    /\ UNCHANGED <<req, hdr, hpc, ctxDone, doneAt, outs, pm, perr, err, md, ps, pl, file,
                   pooled, did, panicking, crashed>>

\* afterConsume that hands the batch over again when the consumer failed
afterConsumeRetry(r) ==
    /\ Live
    /\ wpc[r] = "afterConsume"
    /\ IF cerr[r] # NoErr
       THEN /\ wpc' = [wpc EXCEPT ![r] = "consume"]
            /\ UNCHANGED outs
       ELSE /\ metrics' = [metrics EXCEPT ![r] = @ \o successObservations(pm[r].name)]
            /\ resp' = [resp EXCEPT ![r] = writeResponseNoContent(@, "worker")]
            /\ wpc' = [wpc EXCEPT ![r] = "send"]
            /\ UNCHANGED logged
    /\ UNCHANGED <<req, hpc, ctxDone, doneAt, wlocal, pooled, consumed, panicking,
                   crashed>>

\* lines 151-158: the consumer's error answers 500; success records the two
\* observations and answers 204
afterConsume(r) ==
    /\ Live
    /\ wpc[r] = "afterConsume"
    /\ IF cerr[r] # NoErr
       THEN handleError(r, "worker", StatusInternalServerError, cerr[r], pm[r].name,
                        errorCodeError)
       ELSE /\ metrics' = [metrics EXCEPT ![r] = @ \o successObservations(pm[r].name)]
            /\ resp' = [resp EXCEPT ![r] = writeResponseNoContent(@, "worker")]
            /\ UNCHANGED logged
    /\ wpc' = [wpc EXCEPT ![r] = "send"]
    /\ UNCHANGED <<req, hpc, ctxDone, doneAt, wlocal, pooled, consumed, panicking,
                   crashed>>

\* a panic that has run the deferred send reaches the top of the goroutine:
\* the process dies
crash(r) ==
    /\ Live
    /\ wpc[r] = "unwinding"
    /\ crashed' = TRUE
    /\ wpc' = [wpc EXCEPT ![r] = "crashed"]
    /\ UNCHANGED <<req, hpc, ctxDone, doneAt, outs, wlocal, pooled, consumed, panicking>>

\* the goroutine of handle()
worker(r) ==
    \/ validate(r)
    \/ checkMethod(r)
    \/ checkFormat(r)
    \/ extract(r)
    \/ acquireBuf(r)
    \/ decompress(r)
    \/ sampleRate(r)
    \/ parse(r)
    \/ assembleLogs(r)
    \/ releaseBuf(r)
    \/ afterRead(r)
    \/ consume(r)
    \/ afterConsume(r)
    \/ signal(r)
    \/ crash(r)

(***************************************************************************)
(* One request served by the receiver                                      *)
(***************************************************************************)
Single == {1}

Next == \E r \in Single : httpHandlerIngest(r) \/ DeadlineExpires(r) \/ worker(r)

Spec == Init /\ [][Next]_vars

(***************************************************************************)
(* What the claims speak of                                                *)
(***************************************************************************)
\* the worker's steps before its deferred send
Stages ==
    {"readParams", "method", "format", "multipart", "acquire", "decompress",
     "sampleRate", "parse", "assemble", "release", "afterRead", "consume",
     "afterConsume"}

\* the worker has run its body to the end (it is at, or past, the send)
Finished(r) == wpc[r] \in {"send", "exited"} /\ ~panicking[r]

WritesBy(r, who) == SelectSeq(resp[r], LAMBDA w : w.by = who)

HandlerWrote408(r) ==
    \E i \in 1 .. Len(resp[r]) :
       resp[r][i].by = "handler" /\ resp[r][i].status = StatusRequestTimeout

\* the worker wrote exactly one response: this status, this body
WorkerAnswered(r, status, body) ==
    /\ Len(WritesBy(r, "worker")) = 1
    /\ WritesBy(r, "worker")[1].status = status
    /\ WritesBy(r, "worker")[1].body = body

\* the handler returned on the worker's signal, so nothing but the worker's
\* response is on the writer
ReturnedOnSignal(r) == hpc[r] = "done" /\ WritesBy(r, "handler") = <<>>

CountOf(r, name) == Len(SelectSeq(metrics[r], LAMBDA o : o.name = name))

ValidParams(q) == ~readParams(q).fault /\ readParams(q).err = NoErr

(***************************************************************************)
(* C1                                                                      *)
(***************************************************************************)
\* C1 as stated: whenever the deadline elapsed while the worker was still
\* before its completion send (at whichever stage, or not yet started), a
\* handler that has returned has written 408.
C1_Original ==
    \A r \in Requests :
       (hpc[r] = "done" /\ doneAt[r] \in Stages \cup {"none"}) => HandlerWrote408(r)

\* C1 as amended, the select's part: a handler that enters the select with
\* the context done and the worker not at its send takes the timeout case;
\* a handler parked in the select takes it the moment the context becomes
\* done; and the step out of the timeout case writes the 408 and leaves the
\* worker where it is.
C1_Select ==
    \A r \in Requests :
       /\ (hpc[r] = "select" /\ ctxDone[r] /\ wpc[r] # "send" /\ hpc'[r] # "select")
             => hpc'[r] = "timeout"
       /\ (hpc[r] = "parked" /\ ~ctxDone[r] /\ ctxDone'[r]) => hpc'[r] = "timeout"
       /\ (hpc[r] = "timeout" /\ hpc'[r] # "timeout")
             => /\ HandlerWrote408(r)'
                /\ hpc'[r] = "done"
                /\ wpc'[r] = wpc[r]

\* C1 as amended, the part that nothing is waited for: in the timeout case
\* the 408 can be written whatever the worker is doing.
C1_NoWait ==
    \A r \in Requests : (hpc[r] = "timeout" /\ Live) => ENABLED timeoutCase(r)

\* C1 (amended): if the deadline context is done when the handler's select
\* is entered and the worker is not yet at its completion send, or becomes
\* done while the handler is parked in the select, httpHandlerIngest writes
\* 408 without waiting for the worker, whichever stage the worker is in.
C1_Amended == [][C1_Select]_vars /\ []C1_NoWait

\* the handler has answered 408 and returned while the worker is still
\* decompressing
C1_Witness ==
    \E r \in Requests :
       hpc[r] = "done" /\ HandlerWrote408(r) /\ wpc[r] = "decompress"
          /\ doneAt[r] = "acquire"

(***************************************************************************)
(* C2                                                                      *)
(***************************************************************************)
\* C2: in every interleaving of the handler and its worker, at most one
\* status is ever written to the request's response writer, and a request
\* both have finished with has exactly one.
C2_OneStatus ==
    \A r \in Requests :
       /\ Len(resp[r]) <= 1
       /\ (hpc[r] = "done" /\ Finished(r)) => Len(resp[r]) = 1

(***************************************************************************)
(* C3                                                                      *)
(***************************************************************************)
\* C3: once the handler has answered 408 for a request, its worker makes
\* no ConsumeLogs call.
C3_NoDelegationAfterTimeout ==
    \A r \in Requests :
       \A i \in 1 .. Len(consumed[r]) : ~consumed[r][i].answered

(***************************************************************************)
(* C4                                                                      *)
(***************************************************************************)
\* C4: a request that has reached its end (the handler has returned and the
\* worker has run its body) has, for every response written for it, exactly
\* one request-count observation and exactly one latency observation.
C4_OneObservationEach ==
    \A r \in Requests :
       (hpc[r] = "done" /\ Finished(r))
          => /\ CountOf(r, "http_request_total") = Len(resp[r])
             /\ CountOf(r, "http_response_time_millis") = Len(resp[r])

(***************************************************************************)
(* C5                                                                      *)
(***************************************************************************)
\* the parser was called for r and returned no profile
ZeroRecords(r) == "parse" \in did[r] /\ err[r] = NoErr /\ ps[r] = <<>>

\* C5: when the parser returns zero profiles, ConsumeLogs is never called
\* for the request, the worker answers 204 No Content with no body, and
\* that is the whole response of a request that did not time out.
C5_NoContent ==
    \A r \in Requests :
       ZeroRecords(r)
          => /\ consumed[r] = <<>>
             /\ wpc[r] \notin {"consume", "afterConsume"}
             /\ Finished(r) => WorkerAnswered(r, StatusNoContent, <<>>)
             /\ (Finished(r) /\ ReturnedOnSignal(r))
                   => /\ Len(resp[r]) = 1
                      /\ resp[r][1].status = StatusNoContent

\* a request whose parser returned nothing has been answered 204 and the
\* handler has returned on the worker's signal
C5_Witness ==
    \E r \in Requests :
       /\ ZeroRecords(r)
       /\ wpc[r] = "exited"
       /\ ReturnedOnSignal(r)
       /\ resp[r][1].status = StatusNoContent

(***************************************************************************)
(* C6                                                                      *)
(***************************************************************************)
\* C6: ConsumeLogs is called at most once per request, and only with the
\* whole batch: readProfiles returned no error and the batch has one record
\* for each profile the parser returned; when the call fails the worker
\* answers 500 with the consumer's error and there is no second call.
C6_SingleDelegation ==
    \A r \in Requests :
       /\ Len(consumed[r]) <= 1
       /\ consumed[r] # <<>>
             => /\ err[r] = NoErr
                /\ consumed[r][1].batch = pl[r]
                /\ Len(consumed[r][1].batch) = Len(ps[r])
                /\ Len(ps[r]) > 0
       /\ (cerr[r] # NoErr /\ Finished(r))
             => /\ Len(consumed[r]) = 1
                /\ WorkerAnswered(r, StatusInternalServerError, cerr[r])
       /\ (cerr[r] # NoErr /\ Finished(r) /\ ReturnedOnSignal(r))
             => /\ Len(resp[r]) = 1
                /\ resp[r][1].status = StatusInternalServerError

\* the consumer refused a batch of two records: one call, a 500
C6_Witness ==
    \E r \in Requests :
       /\ cerr[r] # NoErr
       /\ wpc[r] = "exited"
       /\ ReturnedOnSignal(r)
       /\ Len(consumed[r]) = 1
       /\ Len(consumed[r][1].batch) = 2
       /\ resp[r][1].status = StatusInternalServerError

(***************************************************************************)
(* C7                                                                      *)
(***************************************************************************)
\* readProfiles has returned its batch without error
Assembled(r) == "parse" \in did[r] /\ err[r] = NoErr /\ wpc[r] # "assemble"

Zeros9 == <<"0", "0", "0", "0", "0", "0", "0", "0", "0">>

\* the decimal digits of sec * 1e9, from those of sec
NanosText(sec) == IF sec = U64Zero THEN <<"0">> ELSE Sprint(sec) \o Zeros9

\* sec * 5^9 * 2^9 modulo 2^64
TimesBillion(sec) == MulSmall(MulSmall(MulSmall(sec, 3125).val, 625).val, 512).val

\* sec * 1e9 is below 2^64
FitsNanos(sec) ==
    /\ MulSmall(sec, 3125).carry = 0
    /\ MulSmall(MulSmall(sec, 3125).val, 625).carry = 0
    /\ MulSmall(MulSmall(MulSmall(sec, 3125).val, 625).val, 512).carry = 0

\* the profile-type fields and the body of record rec are those of pr
CarriesProfile(rec, pr) ==
    /\ rec.Attributes.type = pr.Type.Type
    /\ rec.Attributes.sample_types = pr.Type.SampleType
    /\ rec.Attributes.sample_units = pr.Type.SampleUnit
    /\ rec.Attributes.period_type = pr.Type.PeriodType
    /\ rec.Attributes.period_unit = pr.Type.PeriodUnit
    /\ rec.Body = pr.Payload

\* tags holds each label name once, with the value of its last label
LastWins(tags, lbls) ==
    /\ \A j \in 1 .. Len(lbls) : \E k \in 1 .. Len(tags) : tags[k].key = lbls[j].Name
    /\ \A k, l \in 1 .. Len(tags) : tags[k].key = tags[l].key => k = l
    /\ \A k \in 1 .. Len(tags) :
          \E j \in 1 .. Len(lbls) :
             /\ lbls[j].Name = tags[k].key
             /\ lbls[j].Value = tags[k].val
             /\ \A m \in (j + 1) .. Len(lbls) : lbls[m].Name # tags[k].key

\* C7 as stated: one record per profile, in order, whose timestamp is
\* start * 1e9 and whose tags are the validated labels, pair for pair.
C7_Original ==
    \A r \in Requests :
       Assembled(r)
          => /\ Len(pl[r]) = Len(ps[r])
             /\ \A i \in 1 .. Len(pl[r]) :
                   /\ Sprint(pl[r][i].Timestamp) = NanosText(pm[r].start)
                   /\ pl[r][i].Attributes.service_name = pm[r].name
                   /\ Len(pl[r][i].Attributes.tags) = Len(pm[r].labels)
                   /\ \A j \in 1 .. Len(pm[r].labels) :
                         /\ pl[r][i].Attributes.tags[j].key = pm[r].labels[j].Name
                         /\ pl[r][i].Attributes.tags[j].val = pm[r].labels[j].Value
                   /\ CarriesProfile(pl[r][i], ps[r][i])

\* C7 (amended): for every successful readProfiles call the batch holds one
\* OutputRecord per ProfileRecord, in the parser's order; record i has
\* timestamp start * 1e9 modulo 2^64 (start * 1e9 itself when that is below
\* 2^64), service_name the validated name, tags mapping each validated label
\* name to the value of its last label, and the profile-type fields and the
\* payload of ProfileRecord i; from=1000, until=2000, name=svc{env=prod} and
\* one record with payload P give timestamp 1000000000000, duration_ns
\* "1000000000000", service_name svc, tags {env: prod}, body P and, when the
\* consumer accepts the batch, the response 204.
C7_Amended ==
    \A r \in Requests :
       Assembled(r)
          => /\ Len(pl[r]) = Len(ps[r])
             /\ \A i \in 1 .. Len(pl[r]) :
                   /\ pl[r][i].Timestamp = TimesBillion(pm[r].start)
                   /\ FitsNanos(pm[r].start)
                         => Sprint(pl[r][i].Timestamp) = NanosText(pm[r].start)
                   /\ pl[r][i].Attributes.service_name = pm[r].name
                   /\ LastWins(pl[r][i].Attributes.tags, pm[r].labels)
                   /\ CarriesProfile(pl[r][i], ps[r][i])
             /\ (req[r].query = QueryPlain /\ ps[r] = <<CpuProfile>>)
                   => /\ Sprint(pl[r][1].Timestamp) = <<"1", "0", "0", "0">> \o Zeros9
                      /\ pl[r][1].Attributes.duration_ns = <<"1", "0", "0", "0">> \o Zeros9
                      /\ pl[r][1].Attributes.service_name = svc
                      /\ pl[r][1].Attributes.tags =
                            <<[key |-> <<"e", "n", "v">>, val |-> <<"p", "r", "o", "d">>]>>
                      /\ pl[r][1].Body = <<"P">>
                      /\ (Finished(r) /\ cerr[r] = NoErr)
                            => WorkerAnswered(r, StatusNoContent, <<>>)

\* a batch of two records assembled for a start whose nanoseconds wrap and
\* for labels that name a twice
C7_Witness ==
    \E r \in Requests :
       /\ Assembled(r)
       /\ Len(pl[r]) = 2
       /\ ~FitsNanos(pm[r].start)
       /\ Len(pm[r].labels) > Len(pl[r][1].Attributes.tags)
       /\ ps[r][1] # ps[r][2]

(***************************************************************************)
(* C8                                                                      *)
(***************************************************************************)
\* C8: a POST request with valid query parameters whose format value is not
\* jfr is answered 400 by the worker, and multipart extraction, buffer
\* acquisition, decompression and parsing are never entered for it.
C8_UnsupportedFormat ==
    \A r \in Requests :
       (/\ hpc[r] # "idle"
        /\ req[r].method = "POST"
        /\ ValidParams(req[r].query)
        /\ ~(req[r].query.format.ok /\ req[r].query.format.v = jfr))
          => /\ did[r] = {}
             /\ buf[r] = NoBuf
             /\ file[r] = "none"
             /\ Finished(r)
                   => WorkerAnswered(r, StatusBadRequest,
                                     <<"unsupported format, supported: [jfr]">>)
             /\ (Finished(r) /\ ReturnedOnSignal(r))
                   => /\ Len(resp[r]) = 1
                      /\ resp[r][1].status = StatusBadRequest

\* format=foo has been answered 400
C8_Witness ==
    \E r \in Requests :
       /\ req[r].method = "POST"
       /\ ValidParams(req[r].query)
       /\ req[r].query.format = Given(<<"f", "o", "o">>)
       /\ wpc[r] = "exited"
       /\ ReturnedOnSignal(r)
       /\ resp[r][1].status = StatusBadRequest
       /\ did[r] = {}

(***************************************************************************)
(* C9                                                                      *)
(***************************************************************************)
\* the form parses and none of its file parts is under the field key jfr
MissingJfrPart(body) ==
    ~body.parseErr /\ \A i \in 1 .. Len(body.files) : body.files[i].field # jfr

\* C9: a request whose multipart form has no file part under the key jfr
\* never acquires a buffer and is never decompressed, and once extraction
\* has run the worker answers 400 with "required jfr part is missing".
C9_MissingPart ==
    \A r \in Requests :
       (hpc[r] # "idle" /\ MissingJfrPart(req[r].body))
          => /\ "acquire" \notin did[r]
             /\ "decompress" \notin did[r]
             /\ buf[r] = NoBuf
             /\ ("multipart" \in did[r] /\ Finished(r))
                   => WorkerAnswered(r, StatusBadRequest, <<"required jfr part is missing">>)
             /\ ("multipart" \in did[r] /\ Finished(r) /\ ReturnedOnSignal(r))
                   => /\ Len(resp[r]) = 1
                      /\ resp[r][1].status = StatusBadRequest

\* a form whose only part is under another key has been answered 400
C9_Witness ==
    \E r \in Requests :
       /\ MissingJfrPart(req[r].body)
       /\ "multipart" \in did[r]
       /\ wpc[r] = "exited"
       /\ ReturnedOnSignal(r)
       /\ resp[r][1].body = <<"required jfr part is missing">>

(***************************************************************************)
(* C10                                                                     *)
(***************************************************************************)
\* the error the worker detected: that of readParams, of readProfiles or of
\* ConsumeLogs
DetectedError(r) ==
    IF perr[r] # NoErr THEN perr[r] ELSE IF err[r] # NoErr THEN err[r] ELSE cerr[r]

\* C10: whenever the worker has ended on an error, the body of its response
\* is the message of the error that was detected.
C10_BodyIsErrorMessage ==
    \A r \in Requests :
       (Finished(r) /\ DetectedError(r) # NoErr)
          => /\ WritesBy(r, "worker") # <<>>
             /\ WritesBy(r, "worker")[1].body = DetectedError(r)

(***************************************************************************)
(* readParams over a wider set of query strings                            *)
(***************************************************************************)
\* longest name value taken character by character
MaxName == 3
\* most labels a rendered label block holds
MaxLabels == 2

\* the characters readParams tells apart in a name value
NameChars == {"a", "{", "}", "=", ","}

\* every name value of up to MaxName such characters
ShortNames == SeqsUpTo(NameChars, MaxName)

LabelKeys == {<<"k">>, <<"e", "n">>}

LabelValues == {<<"1">>, <<"v", "2">>}

\* labels.Label values, and lists of up to MaxLabels of them
LabelSet == [Name : LabelKeys, Value : LabelValues]

LabelLists == SeqsUpTo(LabelSet, MaxLabels)

\* k1=v1,k2=v2,... as the client writes the labels lbls[i], lbls[i+1], ...
RECURSIVE JoinLabels(_, _)
JoinLabels(lbls, i) ==
    IF i > Len(lbls)
    THEN <<>>
    ELSE lbls[i].Name \o <<"=">> \o lbls[i].Value \o
         (IF i < Len(lbls) THEN <<",">> ELSE <<>>) \o JoinLabels(lbls, i + 1)

\* the name value app{k1=v1,k2=v2,...}
LabelExpr(app, lbls) == app \o <<"{">> \o JoinLabels(lbls, 1) \o <<"}">>

\* the name value app{k1=v1,...,k}: a last name that has no value
DanglingExpr(app, lbls, k, eq) ==
    app \o <<"{">> \o JoinLabels(lbls, 1) \o (IF lbls = <<>> THEN <<>> ELSE <<",">>) \o
    k \o (IF eq THEN <<"=">> ELSE <<>>) \o <<"}">>

Apps == {<<>>, svc}

\* the name values the wider set holds
NameValues ==
    ShortNames \cup {svc}
       \cup {LabelExpr(a, l) : a \in Apps, l \in LabelLists}
       \cup UNION {{DanglingExpr(a, l, k, eq) : a \in Apps, l \in LabelLists} :
                      k \in LabelKeys, eq \in BOOLEAN}

u64Max ==
    <<"1", "8", "4", "4", "6", "7", "4", "4", "0", "7", "3", "7", "0", "9", "5", "5", "1",
      "6", "1", "5">>

\* values of from and until: absent, or one of these texts
TimeValues ==
    {Absent} \cup
    {Given(t) : t \in {<<>>, <<"0">>, <<"7">>, <<"0", "7">>, <<"x">>, <<"-", "1">>,
                       <<"1", "0", "0", "0">>, u64Max,
                       [u64Max EXCEPT ![20] = "6"]}}

\* the queries: every name value between two plain times, and every pair
\* of time values around a few names
ParamQueries ==
    {Query(Given(<<"1", "0", "0", "0">>), Given(n), Given(<<"2", "0", "0", "0">>),
           Given(jfr), Absent) : n \in NameValues}
       \cup {Query(f, n, u, Given(jfr), Absent) :
                f \in TimeValues, u \in TimeValues,
                n \in {Absent, Given(svc), Given(svc \o <<"{", "k", "}">>),
                       Given(<<"a", "p", "p", "{">>)}}

\* request 1 has been handed to httpHandlerIngest with one of the queries
InitParams ==
    /\ \E m \in Methods, q \in ParamQueries :
          req = [r \in Requests |->
                    IF r = 1
                    THEN [method |-> m, query |-> q,
                          body |-> [parseErr |-> FALSE, files |-> <<FilePart(jfr, jfr, FALSE)>>]]
                    ELSE NoRequest]
    /\ hdr = [r \in Requests |-> IF r = 1 THEN "multipart/form-data" ELSE ""]
    /\ hpc = [r \in Requests |-> IF r = 1 THEN "handle" ELSE "idle"]
    /\ wpc = [r \in Requests |-> "none"]
    /\ ctxDone = [r \in Requests |-> FALSE]
    /\ doneAt = [r \in Requests |-> ""]
    /\ resp = [r \in Requests |-> <<>>]
    /\ metrics = [r \in Requests |-> <<>>]
    /\ logged = [r \in Requests |-> <<>>]
    /\ pm = [r \in Requests |-> ZeroParams]
    /\ perr = [r \in Requests |-> NoErr]
    /\ err = [r \in Requests |-> NoErr]
    /\ cerr = [r \in Requests |-> NoErr]
    /\ md = [r \in Requests |-> U64Zero]
    /\ ps = [r \in Requests |-> <<>>]
    /\ pl = [r \in Requests |-> <<>>]
    /\ file = [r \in Requests |-> "none"]
    /\ buf = [r \in Requests |-> NoBuf]
    /\ bufLen = [b \in Requests |-> 0]
    /\ pool = {}
    /\ consumed = [r \in Requests |-> <<>>]
    /\ did = [r \in Requests |-> {}]
    /\ panicking = [r \in Requests |-> FALSE]
    /\ crashed = FALSE

\* the handler waits for the worker, which runs readParams and the method
\* check; the stages of readProfiles are left out
NextParams ==
    \E r \in Single :
       \/ handle(r)
       \/ selectEnter(r)
       \/ receivedCase(r)
       \/ validate(r)
       \/ checkMethod(r)
       \/ signal(r)
       \/ crash(r)

SpecParams == InitParams /\ [][NextParams]_vars

(***************************************************************************)
(* C11                                                                     *)
(***************************************************************************)
\* the worker has left readParams, by a return or by a fault
PastReadParams(r) == wpc[r] \notin {"none", "readParams"}

\* a time value that is a plain decimal number of a few digits
PlainTime(t) ==
    t.ok /\ t.v \in {<<"0">>, <<"7">>, <<"1", "0", "0", "0">>, <<"2", "0", "0", "0">>}

\* C11: for a name value app{k1=v1,k2=v2,...} between valid times readParams
\* returns, without error, the name app and exactly the labels (k1,v1),
\* (k2,v2),... in that order, a name given twice kept twice; app{} gives no
\* label; a name value without '{' is the name, with no label.
C11_LabelsInOrder ==
    \A r \in Requests :
       LET q == req[r].query
       IN  (PastReadParams(r) /\ q.name.ok /\ PlainTime(q.from) /\ PlainTime(q.until))
              => /\ \A a \in Apps, l \in LabelLists :
                       q.name.v = LabelExpr(a, l)
                          => /\ ~panicking[r]
                             /\ perr[r] = NoErr
                             /\ pm[r].name = a
                             /\ pm[r].labels = l
                 /\ (\A i \in 1 .. Len(q.name.v) : q.name.v[i] # "{")
                       => /\ ~panicking[r]
                          /\ perr[r] = NoErr
                          /\ pm[r].name = q.name.v
                          /\ pm[r].labels = <<>>

\* readParams has returned two labels of one name for svc{k=.., k=..}
C11_Witness ==
    \E r \in Requests :
       /\ PastReadParams(r)
       /\ \E l \in LabelLists :
             /\ Len(l) = 2
             /\ l[1].Name = l[2].Name
             /\ l[1].Value # l[2].Value
             /\ req[r].query.name = Given(LabelExpr(svc, l))
             /\ pm[r].labels = l
       /\ pm[r].name = svc
       /\ wpc[r] \in {"method", "format"}

(***************************************************************************)
(* C12                                                                     *)
(***************************************************************************)
\* the name value s has a label block: a '{', and a '}' that ends it
HasBlock(s) == s # <<>> /\ s[Len(s)] = "}" /\ \E i \in 1 .. Len(s) : s[i] = "{"

\* the places of the label block of s: after the first '{', before the last '}'
BlockPlaces(s) ==
    {p \in 1 .. (Len(s) - 1) : \E i \in 1 .. (p - 1) : s[i] = "{"}

\* the tokens of the block, counted by the places where one begins
TokenCount(s) ==
    Cardinality({p \in BlockPlaces(s) :
                    /\ s[p] \notin {"=", ","}
                    /\ (p - 1 \in BlockPlaces(s) => s[p - 1] \in {"=", ","})})

\* C12: when the label block of the name value holds an odd number of
\* tokens, readParams returns the error "failed to compile labels" and no
\* label, and the request is answered 400 and goes no further.
C12_OddBlockRejected ==
    \A r \in Requests :
       LET q == req[r].query
       IN  (/\ PastReadParams(r)
            /\ PlainTime(q.from)
            /\ q.name.ok
            /\ HasBlock(q.name.v)
            /\ TokenCount(q.name.v) % 2 = 1)
              => /\ ~panicking[r]
                 /\ perr[r] = <<"failed to compile labels">>
                 /\ pm[r].labels = <<>>
                 /\ wpc[r] \in {"send", "exited"}
                 /\ Len(resp[r]) = 1
                 /\ resp[r][1].by = "worker"
                 /\ resp[r][1].status = StatusBadRequest

\* svc{k=v,k} has been rejected and the handler has returned
C12_Witness ==
    \E r \in Requests :
       /\ \E l \in LabelLists, k \in LabelKeys :
             /\ Len(l) = 1
             /\ req[r].query.name = Given(DanglingExpr(svc, l, k, FALSE))
       /\ TokenCount(req[r].query.name.v) = 3
       /\ perr[r] = <<"failed to compile labels">>
       /\ wpc[r] = "exited"
       /\ hpc[r] = "done"
       /\ resp[r][1].status = StatusBadRequest

(***************************************************************************)
(* C13                                                                     *)
(***************************************************************************)
DecValue(c) == CHOOSE d \in 0 .. 9 : DigitChars[d + 1] = c

\* a and b are decimal texts of one length, and a is at most b
DecLeq(a, b) ==
    \/ a = b
    \/ \E i \in 1 .. Len(a) :
          /\ DecValue(a[i]) < DecValue(b[i])
          /\ \A j \in 1 .. (i - 1) : a[j] = b[j]

\* the text is a decimal number that fits 64 bits: digits only, at least
\* one, and without its leading zeros at most 18446744073709551615
ValidUintText(s) ==
    /\ s # <<>>
    /\ \A i \in 1 .. Len(s) : s[i] \in {"0", "1", "2", "3", "4", "5", "6", "7", "8", "9"}
    /\ LET lead == Cardinality({i \in 1 .. Len(s) : \A j \in 1 .. i : s[j] = "0"})
           sig == SubSeq(s, lead + 1, Len(s))
       IN  \/ Len(sig) < Len(u64Max)
           \/ Len(sig) = Len(u64Max) /\ DecLeq(sig, u64Max)

\* readParams returned its params with a nil error
Succeeded(r) == PastReadParams(r) /\ ~panicking[r] /\ perr[r] = NoErr

\* the first words of the five messages
ValidationMessages ==
    <<"required start time is missing", "failed to parse start time: ",
      "required labels are missing", "required end time is missing",
      "failed to parse end time: ">>

\* C13: readParams does not succeed when from is absent, from is no
\* unsigned 64-bit decimal, name is absent, until is absent or until is no
\* unsigned 64-bit decimal; the case it meets first (from, then name, then
\* until) fixes its message, the five messages differ from one another, and
\* it succeeds only when from, name and until are all present and valid.
C13_ValidationCases ==
    /\ \A i, j \in 1 .. Len(ValidationMessages) :
          i # j => ValidationMessages[i] # ValidationMessages[j]
    /\ \A r \in Requests :
          LET q == req[r].query
              fromValid == q.from.ok /\ ValidUintText(q.from.v)
              untilValid == q.until.ok /\ ValidUintText(q.until.v)
              nameFine == /\ q.name.ok
                          /\ ~panicking[r]
                          /\ perr[r] # <<"failed to compile labels">>
          IN  PastReadParams(r)
                 => /\ Succeeded(r) => (fromValid /\ q.name.ok /\ untilValid)
                    /\ ~q.from.ok
                          => /\ ~panicking[r]
                             /\ perr[r] = <<ValidationMessages[1]>>
                    /\ (q.from.ok /\ ~fromValid)
                          => /\ ~panicking[r]
                             /\ perr[r][1] = ValidationMessages[2]
                    /\ (fromValid /\ ~q.name.ok)
                          => /\ ~panicking[r]
                             /\ perr[r] = <<ValidationMessages[3]>>
                    /\ (fromValid /\ nameFine /\ ~q.until.ok)
                          => perr[r] = <<ValidationMessages[4]>>
                    /\ (fromValid /\ nameFine /\ q.until.ok /\ ~untilValid)
                          => perr[r][1] = ValidationMessages[5]
                    /\ (fromValid /\ nameFine /\ untilValid) => Succeeded(r)

\* an until of 18446744073709551616 has been rejected as out of range
C13_Witness ==
    \E r \in Requests :
       /\ PastReadParams(r)
       /\ req[r].query.from = Given(u64Max)
       /\ req[r].query.name = Given(svc)
       /\ req[r].query.until = Given([u64Max EXCEPT ![20] = "6"])
       /\ perr[r] = <<"failed to parse end time: ">> \o
                       NumErrorText(req[r].query.until.v, "range")
       /\ wpc[r] = "exited"

(***************************************************************************)
(* Requests served at once: readProfiles and the buffer pool they share    *)
(***************************************************************************)
\* valid queries, one of them with a sample rate ParseUint rejects
PoolQueries == {QueryPlain, [QueryPlain EXCEPT !.sampleRate = Given(<<"h", "z">>)]}

\* every request is a POST whose worker has passed readParams and the
\* method check, and whose handler is parked in the select
InitPool ==
    /\ req \in [Requests -> [method : {"POST"}, query : PoolQueries,
                             body : {[parseErr |-> FALSE,
                                      files |-> <<FilePart(jfr, jfr, FALSE)>>]}]]
    /\ hdr = [r \in Requests |-> "multipart/form-data"]
    /\ hpc = [r \in Requests |-> "parked"]
    /\ wpc = [r \in Requests |-> "format"]
    /\ ctxDone = [r \in Requests |-> FALSE]
    /\ doneAt = [r \in Requests |-> ""]
    /\ resp = [r \in Requests |-> <<>>]
    /\ metrics = [r \in Requests |-> <<>>]
    /\ logged = [r \in Requests |-> <<>>]
    /\ pm = [r \in Requests |-> readParams(req[r].query).p]
    /\ perr = [r \in Requests |-> NoErr]
    /\ err = [r \in Requests |-> NoErr]
    /\ cerr = [r \in Requests |-> NoErr]
    /\ md = [r \in Requests |-> U64Zero]
    /\ ps = [r \in Requests |-> <<>>]
    /\ pl = [r \in Requests |-> <<>>]
    /\ file = [r \in Requests |-> "none"]
    /\ buf = [r \in Requests |-> NoBuf]
    /\ bufLen = [b \in Requests |-> 0]
    /\ pool = {}
    /\ consumed = [r \in Requests |-> <<>>]
    /\ did = [r \in Requests |-> {}]
    /\ panicking = [r \in Requests |-> FALSE]
    /\ crashed = FALSE

\* what the parser finds in the bodies of these requests: nothing, or one
\* profile
PoolParseResults == {<<>>, <<CpuProfile>>}

\* parse on such a body
parseSmall(r) == parse(r) /\ ps'[r] \in PoolParseResults

\* Decompress on such a body: it is empty, or one byte long
decompressSmall(r) == decompress(r) /\ bufLen'[buf[r]] \in {0, 1}

\* the workers run readProfiles, interleaved in any order
NextPool ==
    \E r \in Requests :
       \/ checkFormat(r)
       \/ extract(r)
       \/ acquireBuf(r)
       \/ decompressSmall(r)
       \/ sampleRate(r)
       \/ parseSmall(r)
       \/ assembleLogs(r)
       \/ releaseBuf(r)

SpecPool == InitPool /\ [][NextPool]_vars

(***************************************************************************)
(* C14                                                                     *)
(***************************************************************************)
\* the size observation the request recorded after Decompress
BodySizes(r) ==
    SelectSeq(metrics[r], LAMBDA o : o.name = "request_body_uncompressed_size_bytes")

\* C14: every buffer resting in the pool has length zero, and the buffer a
\* request has just acquired, new or pooled, has length zero whatever it
\* held before.
C14_PooledBuffersEmpty ==
    /\ \A b \in pool : bufLen[b] = 0
    /\ \A r \in Requests : wpc[r] = "decompress" => bufLen[buf[r]] = 0

\* a request has acquired, with length zero, the buffer another request
\* made, filled with one byte and released
C14_Witness ==
    \E r, o \in Requests :
       /\ r # o
       /\ wpc[r] = "decompress"
       /\ buf[r] = o
       /\ bufLen[o] = 0
       /\ wpc[o] = "afterRead"
       /\ BodySizes(o) # <<>>
       /\ BodySizes(o)[1].value = 1

(***************************************************************************)
(* C15                                                                     *)
(***************************************************************************)
\* nothing of the body has been touched: no multipart form, no buffer, no
\* decompression, no parser call, none of their observations
BodyUntouched(r) ==
    /\ did[r] = {}
    /\ file[r] = "none"
    /\ buf[r] = NoBuf
    /\ ps[r] = <<>>
    /\ pl[r] = <<>>
    /\ \A i \in 1 .. Len(metrics[r]) :
          metrics[r][i].name \in {"http_request_total", "http_response_time_millis"}

\* readParams returns an error for the query
RejectedParams(q) == ~readParams(q).fault /\ readParams(q).err # NoErr

\* C15: the method is looked at once readParams has accepted the query and
\* before readProfiles: a request that is not a POST never has its body
\* touched; with valid parameters its worker answers 405, with parameters
\* readParams rejects it answers the 400 of the parameter error, not 405.
C15_MethodAfterQuery ==
    \A r \in Requests :
       req[r].method # "POST"
          => /\ BodyUntouched(r)
             /\ wpc[r] \notin {"format", "multipart", "acquire", "decompress", "sampleRate",
                               "parse", "assemble", "release", "afterRead", "consume",
                               "afterConsume"}
             /\ wpc[r] = "method" => (perr[r] = NoErr /\ ValidParams(req[r].query))
             /\ (Finished(r) /\ ValidParams(req[r].query))
                   => WorkerAnswered(r, StatusMethodNotAllowed,
                                     <<"method not allowed, supported: [", "POST", "]">>)
             /\ (Finished(r) /\ RejectedParams(req[r].query))
                   => WorkerAnswered(r, StatusBadRequest, <<"bad url query">>)

\* a GET without from has been answered 400, and nothing else
C15_Witness ==
    \E r \in Requests :
       /\ req[r].method = "GET"
       /\ ~req[r].query.from.ok
       /\ wpc[r] = "exited"
       /\ ReturnedOnSignal(r)
       /\ Len(resp[r]) = 1
       /\ resp[r][1].status = StatusBadRequest
       /\ BodyUntouched(r)

(***************************************************************************)
(* C16                                                                     *)
(***************************************************************************)
Holding(r) == buf[r] # NoBuf

\* where readProfiles is between acquireBuf and the deferred releaseBuf
BetweenAcquireAndRelease ==
    {"decompress", "sampleRate", "parse", "assemble", "release"}

\* a request holds a buffer exactly between acquireBuf and releaseBuf,
\* whichever way readProfiles ends, and a held buffer neither rests in the
\* pool nor is held by another request
C16_Exclusive ==
    \A r \in Requests :
       /\ Holding(r) <=> wpc[r] \in BetweenAcquireAndRelease
       /\ Holding(r)
             => /\ buf[r] \notin pool
                /\ \A o \in Requests \ {r} : buf[o] # buf[r]

\* a buffer enters the pool only by its holder giving it up, emptied, at
\* the end of readProfiles, and the holder gives it up to the pool
C16_Release ==
    /\ \A b \in pool' \ pool :
          \E r \in Requests : buf[r] = b /\ ~Holding(r)'
    /\ \A r \in Requests :
          (Holding(r) /\ ~Holding(r)')
             => /\ wpc[r] = "release"
                /\ wpc'[r] = "afterRead"
                /\ pool' = pool \cup {buf[r]}
                /\ bufLen'[buf[r]] = 0

\* C16: with requests served at once, every buffer acquired in
\* readProfiles is emptied and put back into the pool once, on every way out
\* after the acquisition (Decompress fails, sampleRate fails, Parse fails,
\* the assembly fails, success), and no buffer is held by two requests.
C16_ReleasedOnce == []C16_Exclusive /\ [][C16_Release]_vars

\* one request left readProfiles on an assembly error and gave up its
\* buffer, which another request holds while its Decompress has failed
C16_Witness ==
    \E r, o \in Requests :
       /\ r # o
       /\ wpc[o] = "afterRead"
       /\ err[o] # NoErr
       /\ err[o][1] = "failed to parse sample types: "
       /\ buf[r] = o
       /\ wpc[r] = "release"
       /\ err[r] = <<"failed to decompress body: ", "decompress error">>
       /\ pool = {}

(***************************************************************************)
(* C17                                                                     *)
(***************************************************************************)
\* decimal numbers of a fixed number of digits, most significant first,
\* wide enough for 2^64 * 1e9
DecWidth == Len(u64Max) + Len(Zeros9) + 1

DecZeros(n) == [i \in 1 .. n |-> 0] \o <<>>

\* the number a decimal text writes
DecOf(s) == DecZeros(DecWidth - Len(s)) \o ([i \in 1 .. Len(s) |-> DecValue(s[i])] \o <<>>)

DecLess(a, b) ==
    \E i \in 1 .. DecWidth : a[i] < b[i] /\ \A j \in 1 .. (i - 1) : a[j] = b[j]

\* a - b for a >= b: digit i borrows when the digits after it are less in a
DecSub(a, b) ==
    [i \in 1 .. DecWidth |->
        LET borrow == IF \E k \in (i + 1) .. DecWidth :
                            a[k] < b[k] /\ \A j \in (i + 1) .. (k - 1) : a[j] = b[j]
                      THEN 1 ELSE 0
        IN  (a[i] - b[i] - borrow + 10) % 10] \o <<>>

\* a * 10^k, for an a whose first k digits are zero
DecShift(a, k) == SubSeq(a, k + 1, DecWidth) \o DecZeros(k)

\* 2^64
DecTwo64 == DecOf([u64Max EXCEPT ![20] = "6"])

\* a + b: digit i takes a carry when, after it, a pair of digits reaches
\* ten and every pair in between makes nine
DecAdd(a, b) ==
    [i \in 1 .. DecWidth |->
        LET carry == IF \E k \in (i + 1) .. DecWidth :
                           /\ a[k] + b[k] >= 10
                           /\ \A j \in (i + 1) .. (k - 1) : a[j] + b[j] = 9
                     THEN 1 ELSE 0
        IN  (a[i] + b[i] + carry) % 10] \o <<>>

\* 2^64 taken once, twice, ..., nine times
DecMultiples ==
    LET m1 == DecTwo64
        m2 == DecAdd(m1, m1)
        m3 == DecAdd(m2, m1)
        m4 == DecAdd(m2, m2)
        m5 == DecAdd(m4, m1)
        m6 == DecAdd(m3, m3)
        m7 == DecAdd(m4, m3)
        m8 == DecAdd(m4, m4)
        m9 == DecAdd(m5, m4)
    IN  <<m1, m2, m3, m4, m5, m6, m7, m8, m9>>

\* n modulo 2^64 * 10^k, for n < 2^64 * 10^(k+1): the largest multiple that
\* fits is taken off
DecModStep(n, k) ==
    LET fits(c) == ~DecLess(n, DecShift(DecMultiples[c], k))
        q == CHOOSE c \in 0 .. 9 : (c = 0 \/ fits(c)) /\ (c = 9 \/ ~fits(c + 1))
    IN  IF q = 0 THEN n ELSE DecSub(n, DecShift(DecMultiples[q], k))

\* n modulo 2^64, for n < 2^64 * 1e9, by long division
DecMod64(n) ==
    LET n8 == DecModStep(n, 8)
        n7 == DecModStep(n8, 7)
        n6 == DecModStep(n7, 6)
        n5 == DecModStep(n6, 5)
        n4 == DecModStep(n5, 4)
        n3 == DecModStep(n4, 3)
        n2 == DecModStep(n3, 2)
        n1 == DecModStep(n2, 1)
    IN  DecModStep(n1, 0)

\* the decimal text of a number: no leading zero
DecText(a) ==
    LET lead == Cardinality({i \in 1 .. DecWidth : \A j \in 1 .. i : a[j] = 0})
    IN  IF lead = DecWidth
        THEN <<"0">>
        ELSE SubSeq([i \in 1 .. DecWidth |-> DigitChars[a[i] + 1]], lead + 1, DecWidth)

\* ((end - start) mod 2^64) * 1e9 mod 2^64 in decimal, from the decimal
\* texts of start and end
DurationText(from, until) ==
    LET s == DecOf(from)
        e == DecOf(until)
        d == IF DecLess(e, s) THEN DecSub(DecTwo64, DecSub(s, e)) ELSE DecSub(e, s)
    IN  DecText(DecMod64(DecShift(d, Len(Zeros9))))

\* the pairs of valid times of the queries, each with its duration text
DurationTable ==
    {<<q.from.v, q.until.v, DurationText(q.from.v, q.until.v)>> :
        q \in {x \in Queries : /\ x.from.ok /\ ValidUintText(x.from.v)
                               /\ x.until.ok /\ ValidUintText(x.until.v)}}

\* C17: readParams accepts every pair of valid start and end, whatever
\* their order, and the duration_ns attribute of every record is the decimal
\* text of ((end - start) mod 2^64) * 1e9 mod 2^64: a window that ends
\* before it starts gives a huge duration and no error.
C17_DurationWraps ==
    \A r \in Requests :
       LET q == req[r].query
       IN  /\ (PastReadParams(r) /\ q \in ValidQueries) => Succeeded(r)
           /\ \A i \in 1 .. Len(pl[r]) :
                 <<q.from.v, q.until.v, pl[r][i].Attributes.duration_ns>> \in DurationTable

\* a record has been handed on whose window ends a thousand seconds before
\* it starts: its duration is 2^64 - 1e12 nanoseconds
C17_Witness ==
    \E r \in Requests :
       /\ req[r].query = QueryBackwards
       /\ Len(consumed[r]) = 1
       /\ Len(consumed[r][1].batch) = 1
       /\ consumed[r][1].batch[1].Attributes.duration_ns =
             <<"1", "8", "4", "4", "6", "7", "4", "3", "0", "7", "3", "7", "0", "9", "5", "5",
               "1", "6", "1", "6">>
       /\ WorkerAnswered(r, StatusNoContent, <<>>)

(***************************************************************************)
(* C18                                                                     *)
(***************************************************************************)
\* C18: the params readParams returns without error have a non-empty name,
\* so that no request with an empty name goes on to the later stages.
C18_NameNonEmpty ==
    \A r \in Requests : Succeeded(r) => pm[r].name # <<>>

(***************************************************************************)
(* C20                                                                     *)
(***************************************************************************)
\* C20: readParams returns, params or an error, for every name value: the
\* worker never unwinds a run-time panic and the process never dies of one.
C20_NeverFaults ==
    /\ ~crashed
    /\ \A r \in Requests : ~panicking[r]

(***************************************************************************)
(* C19                                                                     *)
(***************************************************************************)
\* the steps of httpHandlerIngest once the server has called it
handlerSteps(r) ==
    \/ handle(r)
    \/ selectEnter(r)
    \/ timeoutCase(r)
    \/ receivedCase(r)

\* the worker goroutine can take a step: it is in its body, or at the send
\* with the handler parked in the select, or unwinding a panic
workerEnabled(r) ==
    /\ Live
    /\ \/ wpc[r] \in Stages
       \/ wpc[r] = "send" /\ hpc[r] = "parked"
       \/ wpc[r] = "unwinding"

\* weak fairness of worker(r), with its enabling condition written out
workerFair(r) == []<>(~workerEnabled(r)) \/ []<><<worker(r)>>_vars

\* The same receiver with its scheduling: a goroutine that can take a step
\* is given the processor in the end, and the timer of the deadline context
\* fires.  A step that waits for the other side of the unbuffered channel
\* is enabled only while that side is there.  When a client sends a request
\* is left open.
SpecLive ==
    /\ Init
    /\ [][Next]_vars
    /\ \A r \in Single : WF_vars(handlerSteps(r))
    /\ \A r \in Single : WF_vars(DeadlineExpires(r))
    /\ \A r \in Single : workerFair(r)

\* a step of the worker is taken only where workerEnabled holds
workerEnabledNeeded ==
    [][\A r \in Single : <<worker(r)>>_vars => workerEnabled(r)]_vars

\* wherever workerEnabled holds the worker is not at a place it stays at
workerEnabledPlaces ==
    \A r \in Single : workerEnabled(r) => wpc[r] \notin {"none", "exited", "crashed"}

\* C19: every worker goroutine that handle() started terminates in the end.
\* Stated for the worker that ran its body without a fault: once it is at its
\* completion send, the send is received in the end and the goroutine exits,
\* also after the handler took the timeout branch and returned.
C19_WorkerTerminates ==
    \A r \in Single : (wpc[r] = "send" /\ ~panicking[r]) ~> (wpc[r] = "exited")
=============================================================================
